---- MODULE Spec2Model ----
(***************************************************************************)
(* A model of backend/docker-server.js: the Express server that runs the   *)
(* CloudPaste worker application in a container.                            *)
(*                                                                         *)
(*   SpecDB    the SQLiteAdapter (prepare().run, exec, batch) used by      *)
(*             concurrent requests over the one shared connection;         *)
(*   SpecStmt  the statement objects prepare() returns, bound and run;     *)
(*   SpecInit  the lazy database-initialisation middleware under           *)
(*             concurrent requests;                                        *)
(*   SpecReq   one request travelling through the middleware chain in      *)
(*             registration order, up to the catch-all route.              *)
(***************************************************************************)
EXTENDS Naturals, Integers, Sequences, FiniteSets, TLC

VARIABLES
  db,          \* the shared connection: [tx, pending, committed]
  pc,          \* per database client: the awaited engine call it is about to make
  kind,        \* per database client: "none" | "batch" | "run" | "exec"
  len,         \* per database client: statements.length of its batch
  i,           \* per database client: index of the next statement of its batch
  caught,      \* per database client: the error the batch's catch block received
  result,      \* per database client: "none" | "ok" | "rejected"
  thrown,      \* per database client: the error the call rejected with
  nres,        \* per database client: results.length
  results,     \* per database client: the results array of batch (the statement each entry is the result of)
  calls,       \* per database client: the calls it made on the engine, in order, each with its outcome
  interfered,  \* per database client: another client used the connection meanwhile
  isDbInitialized,  \* let isDbInitialized
  adapterDb,        \* sqliteAdapter.db: "null" | "open"
  schemaReady,      \* checkAndInitDatabase has completed
  initFailed,       \* an initialisation attempt has failed (and was logged)
  initStarts,       \* calls of sqliteAdapter.init() so far
  checkStarts,      \* calls of checkAndInitDatabase() so far
  ipc,              \* per request: where it stands in the initialisation middleware
  invoked,          \* per request: it called sqliteAdapter.init()
  enteredAfterFail, \* per request: an attempt had already failed when it entered
  dispatched,       \* per request: "no", or what app.fetch found: "ready" | "notReady"
  allowOrigin,      \* webdavConfig.CORS.ALLOW_ORIGIN: "*" or "" (none configured)
  req,              \* the Express request: method, headers, body, tempFilePath, ...
  res,              \* the Express response: status, headers, body, state
  layer,            \* index in Stack of the middleware about to run (0: none)
  idx,              \* the router's idx: where the next call of next() resumes
  finalQ,           \* errors handed to the router's final handler (setImmediate)
  conn,             \* the client connection: "alive" | "closed"
  reqStream,        \* the request body stream: "flowing" | "ended" | "errored"
  fileStream,       \* the spool write stream: "none" | "open" | "ended" | "finished" | "errored"
  tmpFiles,         \* the files that exist in os.tmpdir()
  onFinish,         \* the res.on("finish") cleanup listener is registered
  nextCalls,        \* calls of next by the multipart middleware
  reqError,         \* "none", or "error" once the request stream has emitted "error"
  route,            \* the catch-all route: "idle" | "fetching" | "reading" | "responded" | "escaped"
  canon,            \* the canonical request handed to app.fetch
  fetchCalls,       \* calls of app.fetch for this request
  workerResponse,   \* the response app.fetch resolved with
  caughtError,      \* the error the catch-all route caught
  stmtParams,       \* per statement object made by prepare: its params array
  stmtCount,        \* statement objects made so far
  handle,           \* per program variable: the statement object it refers to (0: none)
  boundWith,        \* per program variable: the arguments of the bind call it was assigned from
  ranWith,          \* per program variable: the parameters its last run() passed to the engine
  \* createErrorResponse
  errorResponses,   \* the calls of createErrorResponse so far: error, status and the body returned
  errorLog,         \* what logMessage("error", ...) was given by those calls
  \* startMemoryMonitoring
  ticks,            \* the number of logMemoryUsage runs so far
  sample,           \* what the last run read: process.memoryUsage(), the cgroup files, global.gc
  shouldGC,         \* shouldGC at the end of the last run
  gcCalled,         \* whether the last run called global.gc()
  monitor           \* "running", or "stopped" once the timer is cleared

dbVars == <<db, pc, kind, len, i, caught, result, thrown, nres, results, calls, interfered>>

initVars == <<isDbInitialized, adapterDb, schemaReady, initFailed, initStarts,
              checkStarts, ipc, invoked, enteredAfterFail, dispatched>>

reqVars == <<allowOrigin, req, res, layer, idx, finalQ, conn, reqStream, fileStream,
             tmpFiles, onFinish, nextCalls, reqError, route, canon, fetchCalls,
             workerResponse, caughtError>>

stmtVars == <<stmtParams, stmtCount, handle, boundWith, ranWith>>

errVars == <<errorResponses, errorLog>>

memVars == <<ticks, sample, shouldGC, gcCalled, monitor>>

vars == <<dbVars, initVars, reqVars, stmtVars, errVars, memVars>>

\* ------------------------------------------------------------------ bounds

NumClients == 2
MaxBatchLen == 2
NumRequests == 3
NumStatements == 2
NumHandles == 3

Clients == 1..NumClients

NoError == "none"

\* --------------------------------------------------------------------------
\* The embedded engine behind this.db (one sqlite connection).  A statement
\* outside a transaction is committed on its own (autocommit); inside one it
\* is pending until COMMIT.  Pending rows are visible on the connection.
\* --------------------------------------------------------------------------

\* What executing one statement can do: succeed, fail leaving the transaction
\* open (a constraint violation, a missing table), or fail with the engine
\* rolling the transaction back (ON CONFLICT ROLLBACK, disk full).
StmtOutcomes == {"ok", "fail", "failRollback"}

Visible(d) == d.committed \cup d.pending

\* db.exec("BEGIN TRANSACTION")
DbBegin(d) ==
  IF d.tx THEN [db |-> d, ok |-> FALSE]
  ELSE [db |-> [d EXCEPT !.tx = TRUE], ok |-> TRUE]

\* db.exec("COMMIT")
DbCommit(d) ==
  IF d.tx
  THEN [db |-> [tx |-> FALSE, pending |-> {},
                committed |-> d.committed \cup d.pending], ok |-> TRUE]
  ELSE [db |-> d, ok |-> FALSE]

\* db.exec("ROLLBACK")
DbRollbackSkipped(d) ==
  [db |-> d, ok |-> d.tx]

DbRollback(d) ==
  IF d.tx
  THEN [db |-> [d EXCEPT !.tx = FALSE, !.pending = {}], ok |-> TRUE]
  ELSE [db |-> d, ok |-> FALSE]

\* db.run(sql, ...params) / db.exec(sql) of one data statement writing `row`
DbRun(d, row, outcome) ==
  CASE outcome = "ok" ->
         [db |-> IF d.tx THEN [d EXCEPT !.pending = @ \cup {row}]
                 ELSE [d EXCEPT !.committed = @ \cup {row}],
          ok |-> TRUE]
    [] outcome = "fail" -> [db |-> d, ok |-> FALSE]
    [] OTHER -> [db |-> [d EXCEPT !.tx = FALSE, !.pending = {}], ok |-> FALSE]

\* --------------------------------------------------------------------------
\* SQLiteAdapter
\* --------------------------------------------------------------------------

InFlight(p) == pc[p] \notin {"idle", "done"}

\* One call on the engine: this.db.exec / this.db.run of BEGIN TRANSACTION,
\* statement k, COMMIT or ROLLBACK, and whether it resolved.
Call(op, k, ok) == [op |-> op, k |-> k, ok |-> ok]

\* Every other client with a call in flight has now shared the connection.
Interfere(p) ==
  [q \in Clients |-> IF q # p /\ InFlight(q) THEN TRUE ELSE interfered[q]]

InitDB ==
  /\ db = [tx |-> FALSE, pending |-> {}, committed |-> {}]
  /\ pc = [p \in Clients |-> "idle"]
  /\ kind = [p \in Clients |-> "none"]
  /\ len = [p \in Clients |-> 0]
  /\ i = [p \in Clients |-> 1]
  /\ caught = [p \in Clients |-> NoError]
  /\ result = [p \in Clients |-> "none"]
  /\ thrown = [p \in Clients |-> NoError]
  /\ nres = [p \in Clients |-> 0]
  /\ results = [p \in Clients |-> <<>>]
  /\ calls = [p \in Clients |-> <<>>]
  /\ interfered = [p \in Clients |-> FALSE]

\* batch(statements) is called: statements.length = n
BatchCall(p, n) ==
  /\ pc[p] = "idle"
  /\ pc' = [pc EXCEPT ![p] = "begin"]
  /\ kind' = [kind EXCEPT ![p] = "batch"]
  /\ len' = [len EXCEPT ![p] = n]
  /\ interfered' = [interfered EXCEPT ![p] = \E q \in Clients : q # p /\ InFlight(q)]
  /\ UNCHANGED <<db, i, caught, result, thrown, nres, results, calls>>
  /\ UNCHANGED <<initVars, reqVars, stmtVars, errVars, memVars>>

\* await this.db.exec("BEGIN TRANSACTION")
BatchBegin(p) ==
  /\ pc[p] = "begin"
  /\ LET r == DbBegin(db) IN
       /\ db' = r.db
       /\ IF r.ok
          THEN /\ pc' = [pc EXCEPT ![p] = IF len[p] = 0 THEN "commit" ELSE "stmt"]
               /\ caught' = caught
          ELSE /\ pc' = [pc EXCEPT ![p] = "rollback"]
               /\ caught' = [caught EXCEPT ![p] = "BEGIN"]
       /\ calls' = [calls EXCEPT ![p] = Append(@, Call("BEGIN", 0, r.ok))]
  /\ interfered' = Interfere(p)
  /\ UNCHANGED <<kind, len, i, result, thrown, nres, results>>
  /\ UNCHANGED <<initVars, reqVars, stmtVars, errVars, memVars>>

BatchStatementContinues(p, outcome) ==
  /\ pc[p] = "stmt"
  /\ LET r == DbRun(db, <<p, i[p]>>, outcome) IN
       /\ db' = r.db
       /\ IF r.ok
          THEN /\ nres' = [nres EXCEPT ![p] = @ + 1]
               /\ results' = [results EXCEPT ![p] = Append(@, i[p])]
          ELSE UNCHANGED <<nres, results>>
       /\ i' = [i EXCEPT ![p] = @ + 1]
       /\ pc' = [pc EXCEPT ![p] = IF i[p] = len[p] THEN "commit" ELSE "stmt"]
       /\ caught' = caught
       /\ calls' = [calls EXCEPT ![p] = Append(@, Call("STMT", i[p], r.ok))]
  /\ interfered' = Interfere(p)
  /\ UNCHANGED <<kind, len, result, thrown>>
  /\ UNCHANGED <<initVars, reqVars, stmtVars, errVars, memVars>>

\* one turn of the for loop: await this.db.exec / this.db.run of statement i
BatchStatement(p, outcome) ==
  /\ pc[p] = "stmt"
  /\ LET r == DbRun(db, <<p, i[p]>>, outcome) IN
       /\ db' = r.db
       /\ IF r.ok
          THEN /\ nres' = [nres EXCEPT ![p] = @ + 1]
               /\ results' = [results EXCEPT ![p] = Append(@, i[p])]
               /\ i' = [i EXCEPT ![p] = @ + 1]
               /\ pc' = [pc EXCEPT ![p] = IF i[p] = len[p] THEN "commit" ELSE "stmt"]
               /\ caught' = caught
          ELSE /\ caught' = [caught EXCEPT ![p] = "STMT"]
               /\ pc' = [pc EXCEPT ![p] = "rollback"]
               /\ UNCHANGED <<nres, results, i>>
       /\ calls' = [calls EXCEPT ![p] = Append(@, Call("STMT", i[p], r.ok))]
  /\ interfered' = Interfere(p)
  /\ UNCHANGED <<kind, len, result, thrown>>
  /\ UNCHANGED <<initVars, reqVars, stmtVars, errVars, memVars>>

\* await this.db.exec("COMMIT"); return results
BatchCommit(p) ==
  /\ pc[p] = "commit"
  /\ LET r == DbCommit(db) IN
       /\ db' = r.db
       /\ IF r.ok
          THEN /\ pc' = [pc EXCEPT ![p] = "done"]
               /\ result' = [result EXCEPT ![p] = "ok"]
               /\ caught' = caught
          ELSE /\ pc' = [pc EXCEPT ![p] = "rollback"]
               /\ caught' = [caught EXCEPT ![p] = "COMMIT"]
               /\ result' = result
       /\ calls' = [calls EXCEPT ![p] = Append(@, Call("COMMIT", 0, r.ok))]
  /\ interfered' = Interfere(p)
  /\ UNCHANGED <<kind, len, i, thrown, nres, results>>
  /\ UNCHANGED <<initVars, reqVars, stmtVars, errVars, memVars>>

BatchRollbackThrowsRollbackError(p) ==
  /\ pc[p] = "rollback"
  /\ db' = DbRollback(db).db
  /\ calls' = [calls EXCEPT ![p] = Append(@, Call("ROLLBACK", 0, DbRollback(db).ok))]
  /\ pc' = [pc EXCEPT ![p] = "done"]
  /\ result' = [result EXCEPT ![p] = "rejected"]
  /\ thrown' = [thrown EXCEPT ![p] = IF DbRollback(db).ok THEN caught[p] ELSE "ROLLBACK"]
  /\ interfered' = Interfere(p)
  /\ UNCHANGED <<kind, len, i, caught, nres, results>>
  /\ UNCHANGED <<initVars, reqVars, stmtVars, errVars, memVars>>

\* catch (error) { try { await this.db.exec("ROLLBACK") } catch {...}; throw error }
BatchRollback(p) ==
  /\ pc[p] = "rollback"
  /\ db' = DbRollback(db).db
  /\ calls' = [calls EXCEPT ![p] = Append(@, Call("ROLLBACK", 0, DbRollback(db).ok))]
  /\ pc' = [pc EXCEPT ![p] = "done"]
  /\ result' = [result EXCEPT ![p] = "rejected"]
  /\ thrown' = [thrown EXCEPT ![p] = caught[p]]
  /\ interfered' = Interfere(p)
  /\ UNCHANGED <<kind, len, i, caught, nres, results>>
  /\ UNCHANGED <<initVars, reqVars, stmtVars, errVars, memVars>>

\* prepare(sql).bind(...).run(): await this._db.run(this.sql, ...this.params)
StatementRun(p, outcome) ==
  /\ pc[p] = "idle"
  /\ LET r == DbRun(db, <<p, 1>>, outcome) IN
       /\ db' = r.db
       /\ result' = [result EXCEPT ![p] = IF r.ok THEN "ok" ELSE "rejected"]
       /\ thrown' = [thrown EXCEPT ![p] = IF r.ok THEN NoError ELSE "STMT"]
       /\ calls' = [calls EXCEPT ![p] = Append(@, Call("STMT", 1, r.ok))]
  /\ pc' = [pc EXCEPT ![p] = "done"]
  /\ kind' = [kind EXCEPT ![p] = "run"]
  /\ interfered' = Interfere(p)
  /\ UNCHANGED <<len, i, caught, nres, results>>
  /\ UNCHANGED <<initVars, reqVars, stmtVars, errVars, memVars>>

\* exec(sql): await this.db.exec(sql)
AdapterExec(p, outcome) ==
  /\ pc[p] = "idle"
  /\ LET r == DbRun(db, <<p, 1>>, outcome) IN
       /\ db' = r.db
       /\ result' = [result EXCEPT ![p] = IF r.ok THEN "ok" ELSE "rejected"]
       /\ thrown' = [thrown EXCEPT ![p] = IF r.ok THEN NoError ELSE "STMT"]
       /\ calls' = [calls EXCEPT ![p] = Append(@, Call("STMT", 1, r.ok))]
  /\ pc' = [pc EXCEPT ![p] = "done"]
  /\ kind' = [kind EXCEPT ![p] = "exec"]
  /\ interfered' = Interfere(p)
  /\ UNCHANGED <<len, i, caught, nres, results>>
  /\ UNCHANGED <<initVars, reqVars, stmtVars, errVars, memVars>>

NextDB ==
  \E p \in Clients :
    \/ \E n \in 0..MaxBatchLen : BatchCall(p, n)
    \/ BatchBegin(p)
    \/ \E o \in StmtOutcomes : BatchStatement(p, o)
    \/ BatchCommit(p)
    \/ BatchRollback(p)
    \/ \E o \in StmtOutcomes : StatementRun(p, o)
    \/ \E o \in StmtOutcomes : AdapterExec(p, o)


\* Rows written by client p's call that the connection can see.
RowsOf(p) == {r \in Visible(db) : r[1] = p}
CommittedOf(p) == {r \in db.committed : r[1] = p}
AllRowsOf(p) == {<<p, k>> : k \in 1..len[p]}

\* C1: a batch that ran with no other database activity in flight and in which
\* a call failed rejects, and none of its row changes is visible afterwards,
\* those of the statements before the failing one included.
C1_BatchAloneIsAtomic ==
  \A p \in Clients :
    (kind[p] = "batch" /\ pc[p] = "done" /\ ~interfered[p] /\ caught[p] # NoError)
      => (result[p] = "rejected" /\ RowsOf(p) = {})

C1_Witness ==
  \E p \in Clients :
    /\ kind[p] = "batch" /\ pc[p] = "done" /\ ~interfered[p]
    /\ caught[p] = "STMT" /\ nres[p] >= 1 /\ result[p] = "rejected"

\* C2: under every interleaving of concurrent batches on the shared connection
\* each batch is all-or-nothing: a resolved batch has all its statements
\* committed, a rejected one has none committed.
C2_ConcurrentBatchesAllOrNothing ==
  \A p \in Clients :
    (kind[p] = "batch" /\ pc[p] = "done" /\ \A q \in Clients : kind[q] \in {"none", "batch"})
      => \/ result[p] = "ok" /\ CommittedOf(p) = AllRowsOf(p)
         \/ result[p] = "rejected" /\ CommittedOf(p) = {}

\* C3: a statement run outside a batch that returned success is committed on
\* its own: it is never part of another request's transaction and its effect
\* stays visible whatever a concurrent batch does.
C3_RunIsIndependentlyCommitted ==
  \A p \in Clients :
    (kind[p] \in {"run", "exec"} /\ result[p] = "ok") => <<p, 1>> \in db.committed

\* --------------------------------------------------------------------------
\* The statement objects prepare(sql) returns
\* --------------------------------------------------------------------------

StmtObjects == 1..NumStatements
StmtRefs == 1..NumHandles

\* The argument lists a caller binds.
ParamLists == {<<>>, <<"a">>, <<"b">>}

NoParams == <<"none">>

InitStmt ==
  /\ stmtParams = [o \in StmtObjects |-> <<>>]
  /\ stmtCount = 0
  /\ handle = [h \in StmtRefs |-> 0]
  /\ boundWith = [h \in StmtRefs |-> NoParams]
  /\ ranWith = [h \in StmtRefs |-> NoParams]

\* h = adapter.prepare(sql): a new object {sql, params: [], _db, bind, run, ...}
Prepare(h) ==
  /\ stmtCount < NumStatements
  /\ stmtCount' = stmtCount + 1
  /\ stmtParams' = [stmtParams EXCEPT ![stmtCount + 1] = <<>>]
  /\ handle' = [handle EXCEPT ![h] = stmtCount + 1]
  /\ boundWith' = [boundWith EXCEPT ![h] = NoParams]
  /\ ranWith' = [ranWith EXCEPT ![h] = NoParams]
  /\ UNCHANGED <<dbVars, initVars, reqVars, errVars, memVars>>

\* g = h.bind(...args): bind(...args) { this.params = args; return this }
Bind(h, g, args) ==
  /\ handle[h] # 0
  /\ stmtParams' = [stmtParams EXCEPT ![handle[h]] = args]
  /\ handle' = [handle EXCEPT ![g] = handle[h]]
  /\ boundWith' = [boundWith EXCEPT ![g] = args]
  /\ ranWith' = [ranWith EXCEPT ![g] = NoParams]
  /\ UNCHANGED stmtCount
  /\ UNCHANGED <<dbVars, initVars, reqVars, errVars, memVars>>

\* h.run() / all() / first(): this._db.run(this.sql, ...this.params)
RunBound(h) ==
  /\ handle[h] # 0
  /\ ranWith' = [ranWith EXCEPT ![h] = stmtParams[handle[h]]]
  /\ UNCHANGED <<stmtParams, stmtCount, handle, boundWith>>
  /\ UNCHANGED <<dbVars, initVars, reqVars, errVars, memVars>>

NextStmt ==
  \E h \in StmtRefs :
    \/ Prepare(h)
    \/ \E g \in StmtRefs, args \in ParamLists : Bind(h, g, args)
    \/ RunBound(h)

\* --------------------------------------------------------------------------
\* The database-initialisation middleware, under concurrent requests
\* --------------------------------------------------------------------------

Requests == 1..NumRequests

InitInit ==
  /\ isDbInitialized = FALSE
  /\ adapterDb = "null"
  /\ schemaReady = FALSE
  /\ initFailed = FALSE
  /\ initStarts = 0
  /\ checkStarts = 0
  /\ ipc = [r \in Requests |-> "arrive"]
  /\ invoked = [r \in Requests |-> FALSE]
  /\ enteredAfterFail = [r \in Requests |-> FALSE]
  /\ dispatched = [r \in Requests |-> "no"]

\* req.env = {...}; next(): the catch-all route runs in the same turn and calls
\* app.fetch(createAdaptedRequest(req), req.env, {}).
Dispatch(r, ready) ==
  /\ ipc' = [ipc EXCEPT ![r] = "done"]
  /\ dispatched' = [dispatched EXCEPT ![r] = IF ready THEN "ready" ELSE "notReady"]

\* The flag is left alone until the initialisation has completed.
InitMiddlewareEnterLateFlag(r) ==
  /\ ipc[r] = "arrive"
  /\ enteredAfterFail' = [enteredAfterFail EXCEPT ![r] = initFailed]
  /\ IF ~isDbInitialized
     THEN /\ isDbInitialized' = isDbInitialized
          /\ initStarts' = initStarts + 1
          /\ invoked' = [invoked EXCEPT ![r] = TRUE]
          /\ ipc' = [ipc EXCEPT ![r] = "open"]
          /\ UNCHANGED dispatched
     ELSE /\ Dispatch(r, adapterDb = "open" /\ schemaReady)
          /\ UNCHANGED <<isDbInitialized, initStarts, invoked>>
  /\ UNCHANGED <<adapterDb, schemaReady, initFailed, checkStarts>>
  /\ UNCHANGED <<dbVars, reqVars, stmtVars, errVars, memVars>>

\* if (!isDbInitialized) { isDbInitialized = true; ... await sqliteAdapter.init()
InitMiddlewareEnter(r) ==
  /\ ipc[r] = "arrive"
  /\ enteredAfterFail' = [enteredAfterFail EXCEPT ![r] = initFailed]
  /\ IF ~isDbInitialized
     THEN /\ isDbInitialized' = TRUE
          /\ initStarts' = initStarts + 1
          /\ invoked' = [invoked EXCEPT ![r] = TRUE]
          /\ ipc' = [ipc EXCEPT ![r] = "open"]
          /\ UNCHANGED dispatched
     ELSE /\ Dispatch(r, adapterDb = "open" /\ schemaReady)
          /\ UNCHANGED <<isDbInitialized, initStarts, invoked>>
  /\ UNCHANGED <<adapterDb, schemaReady, initFailed, checkStarts>>
  /\ UNCHANGED <<dbVars, reqVars, stmtVars, errVars, memVars>>

\* SQLiteAdapter.init: this.db = await open({...})
AdapterOpen(r, ok) ==
  /\ ipc[r] = "open"
  /\ IF ok
     THEN /\ adapterDb' = "open"
          /\ ipc' = [ipc EXCEPT ![r] = "pragma"]
          /\ UNCHANGED <<initFailed, dispatched>>
     ELSE /\ initFailed' = TRUE
          /\ Dispatch(r, FALSE)
          /\ UNCHANGED adapterDb
  /\ UNCHANGED <<isDbInitialized, schemaReady, initStarts, checkStarts, invoked,
                 enteredAfterFail>>
  /\ UNCHANGED <<dbVars, reqVars, stmtVars, errVars, memVars>>

\* SQLiteAdapter.init: await this.db.exec("PRAGMA foreign_keys = ON;"); then the
\* middleware calls checkAndInitDatabase(sqliteAdapter)
AdapterPragma(r, ok) ==
  /\ ipc[r] = "pragma"
  /\ IF ok
     THEN /\ ipc' = [ipc EXCEPT ![r] = "check"]
          /\ checkStarts' = checkStarts + 1
          /\ UNCHANGED <<initFailed, dispatched>>
     ELSE /\ initFailed' = TRUE
          /\ Dispatch(r, FALSE)
          /\ UNCHANGED checkStarts
  /\ UNCHANGED <<isDbInitialized, adapterDb, schemaReady, initStarts, invoked,
                 enteredAfterFail>>
  /\ UNCHANGED <<dbVars, reqVars, stmtVars, errVars, memVars>>

\* await checkAndInitDatabase(sqliteAdapter) settles; req.env = ...; next()
CheckAndInitDatabase(r, ok) ==
  /\ ipc[r] = "check"
  /\ schemaReady' = ok
  /\ initFailed' = (initFailed \/ ~ok)
  /\ Dispatch(r, ok)
  /\ UNCHANGED <<isDbInitialized, adapterDb, initStarts, checkStarts, invoked,
                 enteredAfterFail>>
  /\ UNCHANGED <<dbVars, reqVars, stmtVars, errVars, memVars>>

NextInit ==
  \E r \in Requests :
    \/ InitMiddlewareEnter(r)
    \/ \E ok \in BOOLEAN : AdapterOpen(r, ok)
    \/ \E ok \in BOOLEAN : AdapterPragma(r, ok)
    \/ \E ok \in BOOLEAN : CheckAndInitDatabase(r, ok)

\* --------------------------------------------------------------------------
\* One request through the middleware chain
\* --------------------------------------------------------------------------

\* The router's stack, in registration order.
Stack ==
  <<"davRoutes", "cors", "methodOverride", "webdav", "multipart", "raw", "bodyError",
    "urlencoded", "json", "davLog", "davAllow", "dbInit", "catchAll">>

End == Len(Stack) + 1

Pos(name) == CHOOSE k \in 1..Len(Stack) : Stack[k] = name

Min(S) == CHOOSE x \in S : \A y \in S : x <= y

\* webdavConfig.SUPPORTED_METHODS
SUPPORTED_METHODS ==
  <<"OPTIONS", "PROPFIND", "PROPPATCH", "MKCOL", "COPY", "MOVE", "DELETE", "PUT",
    "LOCK", "UNLOCK">>

SupportedMethodSet == {SUPPORTED_METHODS[k] : k \in 1..Len(SUPPORTED_METHODS)}

\* webdavConfig.PROTOCOL.RESPONSE_HEADERS
DAV_HEADER == <<"1", "2">>
MS_AUTHOR_VIA == <<"DAV">>

\* ApiStatus.INTERNAL_ERROR
INTERNAL_ERROR == 500

Methods == {"GET", "POST", "PUT", "OPTIONS", "MKCOL", "PROPFIND", "LOCK"}

Paths == {"/dav/folder", "/api/files"}

StartsWithDav(path) == path = "/dav/folder"

ContentTypes ==
  {"", "application/json", "application/xml", "application/x-www-form-urlencoded",
   "multipart/form-data", "text/plain"}

IsMultipart(ct) == ct = "multipart/form-data"
IsJson(ct) == ct = "application/json"
IsRaw(ct) == ct = "application/xml"
IsForm(ct) == ct = "application/x-www-form-urlencoded"

\* The body on the wire: none (no Content-Length, no Transfer-Encoding), an empty
\* one, a payload, a payload over the 1gb limit, a payload the decoder rejects.
Wires == {"none", "empty", "data", "pretty", "oversize", "malformed"}

\* Two JSON texts of one value: as JSON.stringify writes it, and with spaces.
CompactJson == "{\"a\":\"payload\"}"
PrettyJson == "{ \"a\": \"payload\" }"

\* The bytes of the body the client sent.
WireText(r) ==
  CASE r.wire = "pretty" -> PrettyJson
    [] r.wire = "data" /\ r.ctype = "application/json" -> CompactJson
    [] r.wire = "data" /\ r.ctype = "application/x-www-form-urlencoded" -> "a=payload"
    [] r.wire = "data" -> "payload"
    [] OTHER -> ""

\* JavaScript values of req.body and of the canonical request's body.
Undefined == [type |-> "undefined", value |-> ""]
Obj(v) == [type |-> "object", value |-> v]
Buf(v) == [type |-> "buffer", value |-> v]
Str(v) == [type |-> "string", value |-> v]
Stream(path) == [type |-> "stream", value |-> path]

Truthy(b) == b.type \in {"object", "buffer", "stream"} \/ (b.type = "string" /\ b.value # "")
IsBuffer(b) == b.type = "buffer"
TypeofObject(b) == b.type \in {"object", "buffer", "stream"}

\* JSON.parse(text): texts that differ in white space only denote one value (an
\* object is kept as the text JSON.stringify writes for it); body-parser and
\* Response.json() hand an empty text on as they find it
JsonParse(text) == Obj(IF text = PrettyJson THEN CompactJson ELSE text)

\* The value is written with the "json spaces" setting on.
JsonStringifySpaced(b) ==
  CASE b.type = "object" -> Str(IF b.value = CompactJson THEN PrettyJson ELSE b.value)
    [] b.type = "buffer" -> Str("{ \"type\": \"Buffer\" }")
    [] b.type = "string" -> Str("\"" \o b.value \o "\"")
    [] OTHER -> Undefined

\* JSON.stringify(value)
JsonStringify(b) ==
  CASE b.type = "object" -> Str(b.value)
    [] b.type = "buffer" -> Str("{\"type\":\"Buffer\"}")
    [] b.type = "string" -> Str("\"" \o b.value \o "\"")
    [] OTHER -> Undefined

\* new URLSearchParams() filled from the keys of the parsed form, toString()
FormEncode(b) == IF b.value = "{}" THEN Str("") ELSE Str(b.value)

NoErr == [type |-> "none", status |-> 0]
ErrTooLarge == [type |-> "entity.too.large", status |-> 413]
ErrParse == [type |-> "entity.parse.failed", status |-> 400]
ErrAborted == [type |-> "aborted", status |-> 0]
ErrWrite == [type |-> "EIO", status |-> 0]

HeaderNames == {"Allow", "Access-Control-Allow-Methods", "Access-Control-Allow-Origin",
                "DAV", "MS-Author-Via", "Content-Type", "Set-Cookie"}

TempFile == "upload-1"

\* The entity.too.large branch is missing: the error goes on with next(err).
BodyErrorHandlerNoTooLarge(e, rs) ==
  IF e.status = 415
  THEN [responded |-> TRUE,
        res |-> [rs EXCEPT !.status = 415, !.body = "unsupported-type-json", !.state = "ended"]]
  ELSE [responded |-> FALSE, res |-> rs]

\* res.status(413).json(...) / res.status(415).json(...) of the body error handler;
\* anything else goes on with next(err)
BodyErrorHandler(e, rs) ==
  IF e.type = "entity.too.large"
  THEN [responded |-> TRUE,
        res |-> [rs EXCEPT !.status = 413, !.body = "too-large-json", !.state = "ended"]]
  ELSE IF e.status = 415
  THEN [responded |-> TRUE,
        res |-> [rs EXCEPT !.status = 415, !.body = "unsupported-type-json", !.state = "ended"]]
  ELSE [responded |-> FALSE, res |-> rs]

\* Whether the router runs the layer `name` for request r when next(e) was called.
Handles(name, e, r) ==
  IF e # NoErr THEN name = "bodyError"
  ELSE /\ name # "bodyError"
       /\ name = "davRoutes" => (r.method \in SupportedMethodSet /\ StartsWithDav(r.path))
       /\ name = "davAllow" => StartsWithDav(r.path)

\* next(e) with the router's idx at k: the next layer that handles it runs; an
\* error handler runs in the same turn; past the last layer the final handler
\* is scheduled.
RECURSIVE RouterNext(_, _, _, _, _)
RouterNext(k, e, r, rs, fq) ==
  LET js == {j \in k..Len(Stack) : Handles(Stack[j], e, r)} IN
  IF js = {}
  THEN [layer |-> 0, idx |-> End, res |-> rs, finalQ |-> Append(fq, e)]
  ELSE LET j == Min(js) IN
       IF e = NoErr
       THEN [layer |-> j, idx |-> j + 1, res |-> rs, finalQ |-> fq]
       ELSE LET h == BodyErrorHandler(e, rs) IN
            IF h.responded
            THEN [layer |-> 0, idx |-> j + 1, res |-> h.res, finalQ |-> fq]
            ELSE RouterNext(j + 1, e, r, rs, fq)

CallNext(e, r, rs) ==
  LET n == RouterNext(idx, e, r, rs, finalQ) IN
    /\ layer' = n.layer
    /\ idx' = n.idx
    /\ res' = n.res
    /\ finalQ' = n.finalQ

\* The handler answered (or waits for an event) without calling next.
Stop(rs) ==
  /\ layer' = 0
  /\ res' = rs
  /\ UNCHANGED <<idx, finalQ>>

NoResponse == [status |-> 200, body |-> "none", text |-> "", state |-> "open",
               headers |-> [h \in HeaderNames |-> <<>>]]

NoCanon == [method |-> "", body |-> Undefined, duplex |-> FALSE]

NoWorkerResponse == [status |-> 0, body |-> "none", ctype |-> "", text |-> "",
                     cookies |-> <<>>, allow |-> ""]

NoAppError == [statusType |-> "none", status |-> 0]

RequestInputs ==
  {[method |-> m, originalMethod |-> m, override |-> o, path |-> p, ctype |-> c,
    wire |-> w, body |-> Undefined, tempFilePath |-> "undefined",
    rawBody |-> Undefined, env |-> FALSE] :
     m \in Methods, o \in {"none", "OPTIONS", "MKCOL"}, p \in Paths,
     c \in ContentTypes, w \in Wires}

\* The requests a client can send (an override header counts on a POST only; a
\* decoder can reject only what it decodes).
ValidInput(r) ==
  /\ r.override # "none" => r.method = "POST"
  /\ r.wire \in {"malformed", "pretty"} => IsJson(r.ctype)
  /\ r.wire = "oversize" => (IsJson(r.ctype) \/ IsRaw(r.ctype) \/ IsForm(r.ctype))
  /\ r.method \in {"GET", "OPTIONS"} => r.wire \in {"none", "data", "oversize"}

ReqRest ==
  /\ conn = "alive"
  /\ reqStream = "flowing"
  /\ fileStream = "none"
  /\ tmpFiles = {}
  /\ onFinish = FALSE
  /\ nextCalls = 0
  /\ reqError = "none"
  /\ route = "idle"
  /\ canon = NoCanon
  /\ fetchCalls = 0
  /\ workerResponse = NoWorkerResponse
  /\ caughtError = NoAppError

\* No request yet.
InitReqIdle ==
  /\ allowOrigin = "*"
  /\ req = [method |-> "GET", originalMethod |-> "GET", override |-> "none",
            path |-> "/api/files", ctype |-> "", wire |-> "none", body |-> Undefined,
            tempFilePath |-> "undefined", rawBody |-> Undefined, env |-> FALSE]
  /\ res = NoResponse
  /\ layer = 0
  /\ idx = 1
  /\ finalQ = <<>>
  /\ ReqRest

\* A request has arrived and the router starts at the top of the stack.
InitReq ==
  /\ allowOrigin \in {"*", ""}
  /\ req \in {r \in RequestInputs : ValidInput(r)}
  /\ res = NoResponse
  /\ finalQ = <<>>
  /\ layer = RouterNext(1, NoErr, req, NoResponse, <<>>).layer
  /\ idx = layer + 1
  /\ ReqRest

SetHeader(rs, name, value) == [rs EXCEPT !.headers[name] = value]

ReqSide == <<conn, reqStream, fileStream, tmpFiles, onFinish, nextCalls, reqError>>
RouteSide == <<route, canon, fetchCalls, workerResponse, caughtError>>

\* server[method.toLowerCase()]("/dav*", (req, res, next) => { log; next() })
DavRoutes ==
  /\ layer = Pos("davRoutes")
  /\ CallNext(NoErr, req, res)
  /\ UNCHANGED <<allowOrigin, req, ReqSide, RouteSide, dbVars, initVars, stmtVars, errVars, memVars>>

\* server.use(cors(corsOptions)): with an origin configured a preflight is
\* answered here (preflightContinue is not set); other requests get the
\* Access-Control-Allow-Origin header and go on.
Cors ==
  /\ layer = Pos("cors")
  /\ IF allowOrigin = ""
     THEN CallNext(NoErr, req, res)
     ELSE IF req.method = "OPTIONS"
     THEN Stop([SetHeader(SetHeader(res, "Access-Control-Allow-Origin", <<allowOrigin>>),
                          "Access-Control-Allow-Methods", SUPPORTED_METHODS)
                  EXCEPT !.status = 204, !.state = "ended"])
     ELSE CallNext(NoErr, req, SetHeader(res, "Access-Control-Allow-Origin", <<allowOrigin>>))
  /\ UNCHANGED <<allowOrigin, req, ReqSide, RouteSide, dbVars, initVars, stmtVars, errVars, memVars>>

\* methodOverride("X-HTTP-Method-Override"), ("X-HTTP-Method"), ("X-Method-Override")
MethodOverride ==
  /\ layer = Pos("methodOverride")
  /\ LET r == IF req.method = "POST" /\ req.override # "none"
              THEN [req EXCEPT !.method = req.override] ELSE req IN
       /\ req' = r
       /\ CallNext(NoErr, r, res)
  /\ UNCHANGED <<allowOrigin, ReqSide, RouteSide, dbVars, initVars, stmtVars, errVars, memVars>>

\* the WebDAV header middleware: Allow on every /dav request, OPTIONS answered
WebdavMiddleware ==
  /\ layer = Pos("webdav")
  /\ IF StartsWithDav(req.path)
     THEN LET rs == SetHeader(SetHeader(res, "Access-Control-Allow-Methods", SUPPORTED_METHODS),
                              "Allow", SUPPORTED_METHODS) IN
          IF req.method = "OPTIONS"
          THEN Stop([SetHeader(SetHeader(rs, "DAV", DAV_HEADER), "MS-Author-Via", MS_AUTHOR_VIA)
                       EXCEPT !.status = 204, !.state = "ended"])
          ELSE CallNext(NoErr, req, rs)
     ELSE CallNext(NoErr, req, res)
  /\ UNCHANGED <<allowOrigin, req, ReqSide, RouteSide, dbVars, initVars, stmtVars, errVars, memVars>>

\* The chain goes on as soon as the pipe is set up, without waiting for "finish".
MultipartMiddlewareNoWait ==
  /\ layer = Pos("multipart")
  /\ IF req.method = "POST" /\ IsMultipart(req.ctype)
     THEN LET r == [req EXCEPT !.tempFilePath = TempFile] IN
            /\ fileStream' = "open"
            /\ tmpFiles' = tmpFiles \cup {TempFile}
            /\ req' = r
            /\ onFinish' = TRUE
            /\ CallNext(NoErr, r, res)
     ELSE /\ CallNext(NoErr, req, res)
          /\ UNCHANGED <<req, fileStream, tmpFiles, onFinish>>
  /\ UNCHANGED <<allowOrigin, conn, reqStream, nextCalls, reqError, RouteSide, dbVars, initVars, stmtVars, errVars, memVars>>

\* the multipart middleware: a multipart POST is piped to a temp file and the
\* chain waits for the stream's events; any other request goes on
MultipartMiddleware ==
  /\ layer = Pos("multipart")
  /\ IF req.method = "POST" /\ IsMultipart(req.ctype)
     THEN /\ fileStream' = "open"
          /\ tmpFiles' = tmpFiles \cup {TempFile}
          /\ req' = [req EXCEPT !.tempFilePath = TempFile]
          /\ onFinish' = TRUE
          /\ Stop(res)
     ELSE /\ CallNext(NoErr, req, res)
          /\ UNCHANGED <<req, fileStream, tmpFiles, onFinish>>
  /\ UNCHANGED <<allowOrigin, conn, reqStream, nextCalls, reqError, RouteSide, dbVars, initVars, stmtVars, errVars, memVars>>

\* req.pipe(fileStream): the request body ends and the pipe ends the file stream
RequestEnd ==
  /\ reqStream = "flowing"
  /\ fileStream \in {"open", "errored"}
  /\ reqStream' = "ended"
  /\ fileStream' = IF fileStream = "open" THEN "ended" ELSE fileStream
  /\ UNCHANGED <<allowOrigin, req, res, layer, idx, finalQ, conn, tmpFiles, onFinish,
                 nextCalls, reqError, RouteSide, dbVars, initVars, stmtVars, errVars, memVars>>

\* fileStream.on("finish", () => { next() })
FileStreamFinish ==
  /\ fileStream = "ended"
  /\ fileStream' = "finished"
  /\ nextCalls' = nextCalls + 1
  /\ CallNext(NoErr, req, res)
  /\ UNCHANGED <<allowOrigin, req, conn, reqStream, tmpFiles, onFinish, reqError,
                 RouteSide, dbVars, initVars, stmtVars, errVars, memVars>>

\* fs.unlinkSync(path): throws when the file does not exist
UnlinkSync(files, path) == [files |-> files \ {path}, ok |-> path \in files]

\* fileStream.on("error", (err) => { try { fs.unlinkSync(tempFilePath) } catch {}; next(err) })
FileStreamError ==
  /\ fileStream \in {"open", "ended"}
  /\ fileStream' = "errored"
  /\ tmpFiles' = UnlinkSync(tmpFiles, TempFile).files
  /\ nextCalls' = nextCalls + 1
  /\ CallNext(ErrWrite, req, res)
  /\ UNCHANGED <<allowOrigin, req, conn, reqStream, onFinish, reqError, RouteSide,
                 dbVars, initVars, stmtVars, errVars, memVars>>

\* req.on("error", (err) => { fileStream.end(); next(err) }): the request stream
\* emits "error" when its socket fails or the client aborts the upload, so the
\* connection is gone when the handler runs
RequestError ==
  /\ reqStream = "flowing"
  /\ fileStream # "none"
  /\ conn = "alive"
  /\ reqStream' = "errored"
  /\ reqError' = "error"
  /\ conn' = "closed"
  /\ fileStream' = IF fileStream = "open" THEN "ended" ELSE fileStream
  /\ nextCalls' = nextCalls + 1
  /\ CallNext(ErrAborted, req, res)
  /\ UNCHANGED <<allowOrigin, req, tmpFiles, onFinish, RouteSide, dbVars, initVars, stmtVars, errVars, memVars>>

\* The cleanup is left out.
CleanupOnFinishKeepsFile(r, files) == [req |-> r, files |-> files]

\* res.on("finish", () => { if (req.tempFilePath) { try { fs.unlinkSync(req.tempFilePath);
\* req.tempFilePath = null } catch { log } } })
CleanupOnFinish(r, files) ==
  IF r.tempFilePath \notin {"undefined", "null"}
  THEN LET u == UnlinkSync(files, r.tempFilePath) IN
       IF u.ok THEN [req |-> [r EXCEPT !.tempFilePath = "null"], files |-> u.files]
       ELSE [req |-> r, files |-> files]
  ELSE [req |-> r, files |-> files]

\* The response has been handed to the operating system: res emits "finish".
\* Nothing is flushed to a connection that is gone, and "finish" is not emitted.
ResponseFinish ==
  /\ res.state = "ended"
  /\ conn = "alive"
  /\ res' = [res EXCEPT !.state = "finished"]
  /\ IF onFinish
     THEN LET c == CleanupOnFinish(req, tmpFiles) IN
            /\ req' = c.req
            /\ tmpFiles' = c.files
     ELSE UNCHANGED <<req, tmpFiles>>
  /\ UNCHANGED <<allowOrigin, layer, idx, finalQ, conn, reqStream, fileStream, onFinish,
                 nextCalls, reqError, RouteSide, dbVars, initVars, stmtVars, errVars, memVars>>

\* The client closes the connection before the response has been flushed.
ConnectionClose ==
  /\ conn = "alive"
  /\ reqStream # "flowing" \/ fileStream = "none"
  /\ res.state # "finished"
  /\ conn' = "closed"
  /\ UNCHANGED <<allowOrigin, req, res, layer, idx, finalQ, reqStream, fileStream,
                 tmpFiles, onFinish, nextCalls, reqError, RouteSide, dbVars, initVars, stmtVars, errVars, memVars>>

HasBody(r) == r.wire # "none"

\* express.raw({type: [xml, text/xml, octet-stream], limit: "1gb"})
RawParser ==
  /\ layer = Pos("raw")
  /\ LET r0 == IF Truthy(req.body) THEN req ELSE [req EXCEPT !.body = Obj("{}")] IN
       IF HasBody(req) /\ IsRaw(req.ctype)
       THEN IF req.wire = "oversize"
            THEN /\ req' = r0
                 /\ CallNext(ErrTooLarge, r0, res)
            ELSE LET r1 == [r0 EXCEPT !.body =
                              Buf(IF req.wire = "empty" THEN "" ELSE "payload")] IN
                   /\ req' = r1
                   /\ CallNext(NoErr, r1, res)
       ELSE /\ req' = r0
            /\ CallNext(NoErr, r0, res)
  /\ UNCHANGED <<allowOrigin, ReqSide, RouteSide, dbVars, initVars, stmtVars, errVars, memVars>>

\* express.urlencoded({extended: true, limit: "1gb"})
UrlencodedParser ==
  /\ layer = Pos("urlencoded")
  /\ IF HasBody(req) /\ IsForm(req.ctype)
     THEN IF req.wire = "oversize"
          THEN /\ req' = req
               /\ CallNext(ErrTooLarge, req, res)
          ELSE LET r1 == [req EXCEPT !.body =
                            Obj(IF req.wire = "empty" THEN "{}" ELSE "a=payload")] IN
                 /\ req' = r1
                 /\ CallNext(NoErr, r1, res)
     ELSE /\ req' = req
          /\ CallNext(NoErr, req, res)
  /\ UNCHANGED <<allowOrigin, ReqSide, RouteSide, dbVars, initVars, stmtVars, errVars, memVars>>

\* express.json({type: [...], limit: "1gb"})
JsonParser ==
  /\ layer = Pos("json")
  /\ IF HasBody(req) /\ IsJson(req.ctype)
     THEN IF req.wire \in {"oversize", "malformed"}
          THEN /\ req' = req
               /\ CallNext(IF req.wire = "oversize" THEN ErrTooLarge ELSE ErrParse, req, res)
          ELSE LET r1 == [req EXCEPT !.body =
                            IF req.wire = "empty" THEN Obj("{}") ELSE JsonParse(WireText(req))] IN
                 /\ req' = r1
                 /\ CallNext(NoErr, r1, res)
     ELSE /\ req' = req
          /\ CallNext(NoErr, req, res)
  /\ UNCHANGED <<allowOrigin, ReqSide, RouteSide, dbVars, initVars, stmtVars, errVars, memVars>>

\* the WebDAV request logger
DavLog ==
  /\ layer = Pos("davLog")
  /\ CallNext(NoErr, req, res)
  /\ UNCHANGED <<allowOrigin, req, ReqSide, RouteSide, dbVars, initVars, stmtVars, errVars, memVars>>

\* server.use("/dav", ...): res.setHeader("Allow", ...); next()
DavAllow ==
  /\ layer = Pos("davAllow")
  /\ CallNext(NoErr, req, SetHeader(res, "Allow", SUPPORTED_METHODS))
  /\ UNCHANGED <<allowOrigin, req, ReqSide, RouteSide, dbVars, initVars, stmtVars, errVars, memVars>>

\* the database initialisation middleware, for this one request: the
\* initialisation, when it is this request that starts it, succeeds or fails,
\* then req.env is set and next() called
DbInitMiddleware(ok) ==
  /\ layer = Pos("dbInit")
  /\ IF ~isDbInitialized
     THEN /\ isDbInitialized' = TRUE
          /\ initStarts' = initStarts + 1
          /\ adapterDb' = IF ok THEN "open" ELSE adapterDb
          /\ schemaReady' = ok
          /\ initFailed' = ~ok
     ELSE /\ ok
          /\ UNCHANGED <<isDbInitialized, initStarts, adapterDb, schemaReady, initFailed>>
  /\ LET r == [req EXCEPT !.env = TRUE] IN
       /\ req' = r
       /\ CallNext(NoErr, r, res)
  /\ UNCHANGED <<checkStarts, ipc, invoked, enteredAfterFail, dispatched>>
  /\ UNCHANGED <<allowOrigin, ReqSide, RouteSide, dbVars, stmtVars, errVars, memVars>>

\* The methods createAdaptedRequest reads a body for.
BodyMethods ==
  {"POST", "PUT", "PATCH", "PROPFIND", "PROPPATCH", "MKCOL", "COPY", "MOVE", "DELETE"}

\* createAdaptedRequest, the multipart branch: the spool file's stream, else the
\* legacy req.rawBody
MultipartBody(r, files) ==
  IF IsMultipart(r.ctype)
  THEN IF r.tempFilePath \notin {"undefined", "null"} /\ r.tempFilePath \in files
       THEN Stream(r.tempFilePath)
       ELSE IF Truthy(r.rawBody) THEN r.rawBody ELSE Undefined
  ELSE Undefined

\* createAdaptedRequest, the else-if chain on the content type
SerializedBody(r) ==
  IF IsJson(r.ctype) /\ Truthy(r.body) /\ TypeofObject(r.body) THEN JsonStringify(r.body)
  ELSE IF IsRaw(r.ctype) /\ IsBuffer(r.body) THEN r.body
  ELSE IF IsForm(r.ctype) /\ Truthy(r.body) /\ TypeofObject(r.body) THEN FormEncode(r.body)
  ELSE IF Truthy(r.body)
  THEN IF IsBuffer(r.body) \/ r.body.type = "string" THEN r.body ELSE JsonStringify(r.body)
  ELSE Undefined

\* The content-type chain runs even when the multipart branch has set a body.
CreateAdaptedRequestChainOverridesSpool(r, files) ==
  LET b == IF r.method \notin BodyMethods THEN Undefined
           ELSE IF r.method = "MKCOL"
           THEN (IF Truthy(r.body) THEN Str("") ELSE MultipartBody(r, files))
           ELSE SerializedBody(r)
  IN [method |-> r.method, body |-> b, duplex |-> b # Undefined]

\* MKCOL is treated like every other method.
CreateAdaptedRequestNoMkcolBranch(r, files) ==
  LET b0 == IF r.method \in BodyMethods THEN MultipartBody(r, files) ELSE Undefined
      b == IF r.method \notin BodyMethods THEN Undefined
           ELSE IF ~Truthy(b0) THEN SerializedBody(r) ELSE b0
  IN [method |-> r.method, body |-> b, duplex |-> b # Undefined]

CreateAdaptedRequestDuplexIfTruthy(r, files) ==
  LET b0 == IF r.method \in BodyMethods THEN MultipartBody(r, files) ELSE Undefined
      b == IF r.method \notin BodyMethods THEN Undefined
           ELSE IF r.method = "MKCOL" THEN (IF Truthy(r.body) THEN Str("") ELSE b0)
           ELSE IF ~Truthy(b0) THEN SerializedBody(r) ELSE b0
  IN [method |-> r.method, body |-> b, duplex |-> Truthy(b)]

\* createAdaptedRequest(expressReq): the method, body and duplex flag of the
\* Request it builds
CreateAdaptedRequest(r, files) ==
  LET b0 == IF r.method \in BodyMethods THEN MultipartBody(r, files) ELSE Undefined
      b == IF r.method \notin BodyMethods THEN Undefined
           ELSE IF r.method = "MKCOL" THEN (IF Truthy(r.body) THEN Str("") ELSE b0)
           ELSE IF ~Truthy(b0) THEN SerializedBody(r) ELSE b0
  IN [method |-> r.method, body |-> b, duplex |-> b # Undefined]

\* What app.fetch, new URL / new Request, or reading the response body can throw:
\* an error without a status, with a numeric one, with a status that is a string.
AppErrors ==
  {[statusType |-> "undefined", status |-> 0], [statusType |-> "string", status |-> 404]}
    \cup {[statusType |-> "number", status |-> n] : n \in {0, 42, 404, 503, 1000}}

PlainError == [statusType |-> "undefined", status |-> 0]

\* The kinds of body the response translation tells apart.
BodyKinds == {"none", "json", "xml", "text", "binary"}

\* The content type that goes with each kind of response body.
ContentTypeOf(k) ==
  CASE k = "json" -> "application/json"
    [] k = "xml" -> "application/xml"
    [] k = "text" -> "text/plain"
    [] k = "binary" -> "application/octet-stream"
    [] OTHER -> ""

\* The values of the Set-Cookie headers of a response.
CookieLists == {<<>>, <<"a=1">>, <<"a=1", "b=2">>}

\* The bodies the application answers the canonical request c with: of each
\* kind one of its own, and the request's body sent back as JSON.
ResponseTexts(c, k) ==
  CASE k = "none" -> {""}
    [] k = "json" -> {"{\"ok\":true}"} \cup
                       (IF c.body.type = "string" THEN {c.body.value} ELSE {})
    [] OTHER -> {"payload"}

\* The headers of its own the application puts on a response: Set-Cookie
\* values, or an Allow header naming the methods of the resource ("": none).
AppHeaderSets ==
  {[cookies |-> ck, allow |-> ""] : ck \in CookieLists}
    \cup {[cookies |-> <<>>, allow |-> "GET, HEAD"]}

\* The responses app.fetch can resolve with for the canonical request c.
WorkerResponses(c) ==
  UNION {{[status |-> st, body |-> k, ctype |-> ContentTypeOf(k), text |-> t,
           cookies |-> hs.cookies, allow |-> hs.allow] :
            st \in {200, 207}, t \in ResponseTexts(c, k), hs \in AppHeaderSets} :
         k \in BodyKinds}

\* value1 + ", " + value2 + ...
RECURSIVE JoinComma(_)
JoinComma(vs) ==
  IF Len(vs) = 1 THEN vs[1] ELSE vs[1] \o ", " \o JoinComma(Tail(vs))

\* workerResponse.headers.forEach: the (key, value) pairs in the order of the
\* keys.  A runtime whose Headers iterates Set-Cookie values one by one hands
\* each over on its own; an older one hands over their comma-joined text.
HeadersForEach(wr, joined) ==
  (IF wr.allow = "" THEN <<>> ELSE <<<<"Allow", wr.allow>>>>)
    \o (IF wr.ctype = "" THEN <<>> ELSE <<<<"Content-Type", wr.ctype>>>>)
    \o (IF wr.cookies = <<>> THEN <<>>
        ELSE IF joined THEN <<<<"Set-Cookie", JoinComma(wr.cookies)>>>>
        ELSE [k \in 1..Len(wr.cookies) |-> <<"Set-Cookie", wr.cookies[k]>>])

\* The charset Express knows for a content type that names none.
DefaultCharset(ct) == IF ct \in {"application/json", "text/plain"} THEN "; charset=utf-8" ELSE ""

\* res.set(field, value): the header is replaced; a Content-Type without a
\* charset gets the default charset of its type
ResSet(rs, field, value) ==
  SetHeader(rs, field,
            <<IF field = "Content-Type" THEN value \o DefaultCharset(value) ELSE value>>)

RECURSIVE ResSetAll(_, _)
ResSetAll(rs, entries) ==
  IF entries = <<>> THEN rs
  ELSE ResSetAll(ResSet(rs, entries[1][1], entries[1][2]), Tail(entries))

\* res.send(string) gives the Content-Type the charset utf-8
SendCharset(h) ==
  IF h = <<>> \/ h \in {<<"application/json; charset=utf-8">>, <<"text/plain; charset=utf-8">>}
  THEN h
  ELSE <<h[1] \o "; charset=utf-8">>

\* convertWorkerResponseToExpress, the branches on the content type: what is
\* written once the body has been read
ConvertBody(wr, rs) ==
  CASE wr.body = "json" ->
         [rs EXCEPT !.body = "json", !.text = JsonStringify(JsonParse(wr.text)).value,
                    !.headers["Content-Type"] = SendCharset(@), !.state = "ended"]
    [] wr.body \in {"xml", "text"} ->
         [rs EXCEPT !.body = wr.body, !.text = wr.text,
                    !.headers["Content-Type"] = SendCharset(ResSet(rs, "Content-Type", wr.ctype).headers["Content-Type"]),
                    !.state = "ended"]
    [] OTHER ->
         [rs EXCEPT !.body = wr.body, !.text = wr.text, !.state = "ended"]

\* The status the catch block selects.
CatchStatus(error) ==
  IF error.statusType = "number" /\ error.status # 0 THEN error.status ELSE INTERNAL_ERROR

\* catch (error) { res.status(status).json(createErrorResponse(error, status)) }:
\* writing the head throws for a status code outside 100..999 and when the
\* headers are already sent
CatchAllCatch(error, rs) ==
  IF rs.state = "open" /\ CatchStatus(error) \in 100..999
  THEN [route |-> "responded",
        res |-> [rs EXCEPT !.status = CatchStatus(error), !.body = "sanitized-error",
                           !.state = "ended"]]
  ELSE [route |-> "escaped", res |-> rs]

\* server.use("*", async (req, res) => { try { ... app.fetch(createAdaptedRequest(req), ...
CatchAllRoute(throws) ==
  /\ layer = Pos("catchAll")
  /\ layer' = 0
  /\ IF throws
     THEN LET c == CatchAllCatch(PlainError, res) IN
            /\ route' = c.route
            /\ res' = c.res
            /\ caughtError' = PlainError
            /\ UNCHANGED <<canon, fetchCalls>>
     ELSE /\ canon' = CreateAdaptedRequest(req, tmpFiles)
          /\ fetchCalls' = fetchCalls + 1
          /\ route' = "fetching"
          /\ UNCHANGED <<res, caughtError>>
  /\ UNCHANGED <<allowOrigin, req, idx, finalQ, ReqSide, workerResponse, dbVars, initVars, stmtVars, errVars, memVars>>

\* app.fetch resolves; convertWorkerResponseToExpress copies the status and
\* either ends the response or awaits the body
FetchResolves(wr, joined) ==
  /\ route = "fetching"
  /\ workerResponse' = wr
  /\ LET rs == ResSetAll([res EXCEPT !.status = wr.status], HeadersForEach(wr, joined)) IN
       IF wr.body = "none"
       THEN /\ res' = [rs EXCEPT !.state = "ended"]
            /\ route' = "responded"
       ELSE /\ res' = rs
            /\ route' = "reading"
  /\ UNCHANGED <<allowOrigin, req, layer, idx, finalQ, ReqSide, canon, fetchCalls,
                 caughtError, dbVars, initVars, stmtVars, errVars, memVars>>

\* app.fetch rejects
FetchRejects(error) ==
  /\ route = "fetching"
  /\ LET c == CatchAllCatch(error, res) IN
       /\ route' = c.route
       /\ res' = c.res
  /\ caughtError' = error
  /\ UNCHANGED <<allowOrigin, req, layer, idx, finalQ, ReqSide, canon, fetchCalls,
                 workerResponse, dbVars, initVars, stmtVars, errVars, memVars>>

\* await workerResponse.json() / text() / arrayBuffer() settles, then res.json / send
BodyRead(ok) ==
  /\ route = "reading"
  /\ IF ok
     THEN /\ res' = ConvertBody(workerResponse, res)
          /\ route' = "responded"
          /\ UNCHANGED caughtError
     ELSE LET c == CatchAllCatch(PlainError, res) IN
            /\ route' = c.route
            /\ res' = c.res
            /\ caughtError' = PlainError
  /\ UNCHANGED <<allowOrigin, req, layer, idx, finalQ, ReqSide, canon, fetchCalls,
                 workerResponse, dbVars, initVars, stmtVars, errVars, memVars>>

\* The router's final handler: 404 when no layer answered, the error's 4xx/5xx
\* status or 500 for an error; with the headers already sent it destroys the socket.
FinalHandler ==
  /\ finalQ # <<>>
  /\ finalQ' = Tail(finalQ)
  /\ LET e == Head(finalQ) IN
       IF res.state # "open"
       THEN /\ conn' = "closed"
            /\ UNCHANGED res
       ELSE /\ res' = [res EXCEPT !.status = IF e = NoErr THEN 404
                                             ELSE IF e.status \in 400..599 THEN e.status
                                             ELSE 500,
                                  !.body = "final-handler-html", !.state = "ended"]
            /\ UNCHANGED conn
  /\ UNCHANGED <<allowOrigin, req, layer, idx, reqStream, fileStream, tmpFiles, onFinish,
                 nextCalls, reqError, RouteSide, dbVars, initVars, stmtVars, errVars, memVars>>

NextReq ==
  \/ DavRoutes
  \/ Cors
  \/ MethodOverride
  \/ WebdavMiddleware
  \/ MultipartMiddleware
  \/ RequestEnd
  \/ FileStreamFinish
  \/ FileStreamError
  \/ RequestError
  \/ ResponseFinish
  \/ ConnectionClose
  \/ RawParser
  \/ UrlencodedParser
  \/ JsonParser
  \/ DavLog
  \/ DavAllow
  \/ \E ok \in BOOLEAN : DbInitMiddleware(ok)
  \/ \E throws \in BOOLEAN : CatchAllRoute(throws)
  \/ \E wr \in WorkerResponses(canon), joined \in BOOLEAN : FetchResolves(wr, joined)
  \/ \E e \in AppErrors : FetchRejects(e)
  \/ \E ok \in BOOLEAN : BodyRead(ok)
  \/ FinalHandler

\* --------------------------------------------------------------------------
\* createErrorResponse
\* --------------------------------------------------------------------------

MaxErrors == 2

\* Error messages as word lists; some name a secret.
ErrorMessages == {<<>>, <<"boom">>, <<"bad", "password", "hunter2">>}

\* The words /key|password|token|secret|auth/gi matches.
SensitiveWords == {"key", "password", "token", "secret", "auth"}

ErrorStacks == {"null", "at batch (docker-server.js)"}

Errors == [message : ErrorMessages, stack : ErrorStacks]

ErrorStatuses == {400, 404, INTERNAL_ERROR}

\* Date.now().toString(36) + Math.random().toString(36).substr(2, 5)
ErrorIds == {"id1", "id2"}

\* defaultMessage = "服务器内部错误"
DefaultMessage == <<"internal", "server", "error">>

\* error.message.replace(/key|password|token|secret|auth/gi, stars)
Sanitize(message) ==
  [k \in DOMAIN message |-> IF message[k] \in SensitiveWords THEN "*" ELSE message[k]]

\* the entry createErrorResponse logs
ErrorLogEntry(error, status, defaultMessage, errorId) ==
  [errorId |-> errorId, status |-> status,
   message |-> IF error.message # <<>> THEN Sanitize(error.message) ELSE defaultMessage,
   stack |-> error.stack]

CreateErrorResponseLeaksMessage(error, status, defaultMessage, errorId) ==
  [code |-> status,
   message |-> IF error.message # <<>> THEN Sanitize(error.message) ELSE defaultMessage,
   errorId |-> errorId, success |-> FALSE, data |-> "null"]

\* createErrorResponse(error, status, defaultMessage): the object it returns
CreateErrorResponse(error, status, defaultMessage, errorId) ==
  [code |-> status, message |-> defaultMessage, errorId |-> errorId,
   success |-> FALSE, data |-> "null"]

InitErr ==
  /\ errorResponses = <<>>
  /\ errorLog = <<>>

\* createErrorResponse(error): the database initialisation middleware's call,
\* status and defaultMessage left to their defaults
ErrorResponseDefaultStatus(error, errorId) ==
  /\ Len(errorResponses) < MaxErrors
  /\ errorLog' = Append(errorLog, ErrorLogEntry(error, INTERNAL_ERROR, DefaultMessage, errorId))
  /\ errorResponses' = Append(errorResponses,
        [error |-> error, status |-> INTERNAL_ERROR,
         body |-> CreateErrorResponse(error, INTERNAL_ERROR, DefaultMessage, errorId)])
  /\ UNCHANGED <<dbVars, initVars, reqVars, stmtVars, memVars>>

\* createErrorResponse(error, status): the catch-all route's call
ErrorResponseWithStatus(error, status, errorId) ==
  /\ Len(errorResponses) < MaxErrors
  /\ errorLog' = Append(errorLog, ErrorLogEntry(error, status, DefaultMessage, errorId))
  /\ errorResponses' = Append(errorResponses,
        [error |-> error, status |-> status,
         body |-> CreateErrorResponse(error, status, DefaultMessage, errorId)])
  /\ UNCHANGED <<dbVars, initVars, reqVars, stmtVars, memVars>>

NextErr ==
  \/ \E e \in Errors, id \in ErrorIds : ErrorResponseDefaultStatus(e, id)
  \/ \E e \in Errors, st \in ErrorStatuses, id \in ErrorIds : ErrorResponseWithStatus(e, st, id)

\* --------------------------------------------------------------------------
\* startMemoryMonitoring
\* --------------------------------------------------------------------------

MaxTicks == 2

\* 50 * 1024 * 1024
AbsoluteThreshold == 50 * 1024 * 1024

\* a / b > 0.85, for b > 0
Exceeds85(a, b) == a * 100 > 85 * b

\* The cgroup files as getContainerMemory finds them: which hierarchy exists
\* ("none": neither; "unreadable": a read throws), the usage read, the limit
\* read, and whether the limit file says there is none ("max" under v2, a
\* value of Number.MAX_SAFE_INTEGER or more under v1).
CgroupFiles ==
  [hierarchy : {"v2", "v1", "none", "unreadable"}, usage : {0, 85, 86},
   limit : {100}, unlimited : BOOLEAN]

\* process.memoryUsage(); arrayBuffers is 0 also where the runtime has no such field
MemoryUsages ==
  [heapUsed : {50, 85, 86}, heapTotal : {100},
   external : {0, AbsoluteThreshold, AbsoluteThreshold + 1},
   arrayBuffers : {0, AbsoluteThreshold, AbsoluteThreshold + 1}]

Samples == [memUsage : MemoryUsages, cgroup : CgroupFiles, gc : BOOLEAN]

Null == [usage |-> 0, limit |-> 0]

\* getContainerMemory(): { usage, limit }, or null
GetContainerMemory(f) ==
  IF f.hierarchy \in {"none", "unreadable"} THEN Null
  ELSE LET usage == f.usage
           limit == IF f.unlimited THEN 0 ELSE f.limit
       IN IF usage # 0 /\ limit # 0 THEN [usage |-> usage, limit |-> limit] ELSE Null

ShouldGCAlsoChecksExternalInContainer(memUsage, containerMem) ==
  \/ containerMem # Null /\ Exceeds85(containerMem.usage, containerMem.limit)
  \/ containerMem = Null /\ Exceeds85(memUsage.heapUsed, memUsage.heapTotal)
  \/ memUsage.external > AbsoluteThreshold
  \/ memUsage.arrayBuffers # 0 /\ memUsage.arrayBuffers > AbsoluteThreshold

\* shouldGC as logMemoryUsage computes it
ShouldGC(memUsage, containerMem) ==
  IF containerMem # Null
  THEN Exceeds85(containerMem.usage, containerMem.limit)
  ELSE \/ Exceeds85(memUsage.heapUsed, memUsage.heapTotal)
       \/ memUsage.external > AbsoluteThreshold
       \/ memUsage.arrayBuffers # 0 /\ memUsage.arrayBuffers > AbsoluteThreshold

NoSample ==
  [memUsage |-> [heapUsed |-> 0, heapTotal |-> 100, external |-> 0, arrayBuffers |-> 0],
   cgroup |-> [hierarchy |-> "none", usage |-> 0, limit |-> 100, unlimited |-> FALSE],
   gc |-> FALSE]

InitMem ==
  /\ ticks = 0
  /\ sample = NoSample
  /\ shouldGC = FALSE
  /\ gcCalled = FALSE
  /\ monitor = "running"

\* one run of logMemoryUsage: at the start, on a timer tick, or by logNow()
LogMemoryUsage(s) ==
  /\ ticks < MaxTicks
  /\ ticks > 0 => monitor = "running"
  /\ ticks' = ticks + 1
  /\ sample' = s
  /\ shouldGC' = ShouldGC(s.memUsage, GetContainerMemory(s.cgroup))
  /\ gcCalled' = (s.gc /\ ShouldGC(s.memUsage, GetContainerMemory(s.cgroup)))
  /\ UNCHANGED monitor
  /\ UNCHANGED <<dbVars, initVars, reqVars, stmtVars, errVars>>

\* stop(), or the process "exit" handler: clearInterval(intervalId)
MonitorStop ==
  /\ ticks > 0
  /\ monitor = "running"
  /\ monitor' = "stopped"
  /\ UNCHANGED <<ticks, sample, shouldGC, gcCalled>>
  /\ UNCHANGED <<dbVars, initVars, reqVars, stmtVars, errVars>>

NextMem ==
  \/ \E s \in Samples : LogMemoryUsage(s)
  \/ MonitorStop

InitReqSpec == InitDB /\ InitInit /\ InitStmt /\ InitErr /\ InitMem /\ InitReq

SpecReq == InitReqSpec /\ [][NextReq]_vars

\* No event of the request is pending any more.
Settled == ~ENABLED NextReq

\* C4: once the response of a request whose multipart body was spooled has
\* fully completed (res emitted "finish"), the temp file no longer exists, after
\* a successful handling and after an error response, the failed spool write
\* included.
C4_TempFileGoneAfterResponse ==
  (onFinish /\ res.state = "finished") => TempFile \notin tmpFiles

C4_Witness ==
  /\ onFinish /\ res.state = "finished"
  /\ route = "responded" /\ canon.body = Stream(TempFile)
  /\ req.tempFilePath = "null"

\* C5: when the client aborts or the request stream errors while the body is
\* being spooled, the spool stream is closed, the partial temp file is removed
\* and the request never reaches app.fetch.
C5_AbortedSpoolIsRemoved ==
  (reqError # "none" /\ Settled)
    => /\ fileStream \in {"finished", "errored"}
       /\ TempFile \notin tmpFiles
       /\ fetchCalls = 0

\* C6: the canonical request of every MKCOL request has the empty string as its
\* body, never the original payload, and its duplex flag set.
C6_MkcolBodyIsEmptyString ==
  (fetchCalls > 0 /\ canon.method = "MKCOL") => (canon.body = Str("") /\ canon.duplex)

C6_Witness ==
  /\ fetchCalls > 0 /\ canon.method = "MKCOL"
  /\ req.body = Buf("payload")
  /\ canon.body = Str("")

\* C7: an OPTIONS request under /dav, taken through the whole chain in
\* registration order, is answered 204 with the Allow header equal to the
\* configured verbs and with the DAV and MS-Author-Via headers, and never
\* reaches app.fetch.
C7_DavPreflightAnswered ==
  (req.originalMethod = "OPTIONS" /\ StartsWithDav(req.path))
    => /\ fetchCalls = 0
       /\ res.state # "open" =>
            /\ res.status = 204
            /\ res.headers["Allow"] = SUPPORTED_METHODS
            /\ res.headers["DAV"] = DAV_HEADER
            /\ res.headers["MS-Author-Via"] = MS_AUTHOR_VIA

\* C10: an exception raised while building the canonical request, in app.fetch
\* or while translating the response is caught by the catch-all route, which
\* answers with the error's numeric status (else the default) and the sanitized
\* body; no exception leaves the route handler.
C10_RouteCatchesEveryException ==
  /\ route # "escaped"
  /\ caughtError # NoAppError =>
       /\ route = "responded"
       /\ res.status = CatchStatus(caughtError)
       /\ res.body = "sanitized-error"

\* C11 (as stated): a request with a raw content type (application/xml,
\* text/xml, application/octet-stream) whose body exceeds the 1gb limit is
\* answered 413 with the handler's message and never reaches app.fetch.
C11_OversizeRawAnswered413 ==
  (IsRaw(req.ctype) /\ req.wire = "oversize")
    => /\ fetchCalls = 0
       /\ res.state # "open" => (res.status = 413 /\ res.body = "too-large-json")

\* C11 (amended): the same, unless the request is an OPTIONS request (sent as
\* such, or made one by a method-override header) that the CORS or the WebDAV
\* middleware answers 204 before the body is read.
C11_OversizeRawAnswered413UnlessPreflight ==
  (IsRaw(req.ctype) /\ req.wire = "oversize")
    => /\ fetchCalls = 0
       /\ res.state # "open" =>
            \/ res.status = 413 /\ res.body = "too-large-json"
            \/ req.method = "OPTIONS" /\ res.status = 204 /\ res.body = "none"

C11_Witness ==
  /\ IsRaw(req.ctype) /\ req.wire = "oversize" /\ req.method = "PUT"
  /\ res.state = "finished" /\ res.status = 413 /\ res.body = "too-large-json"
  /\ fetchCalls = 0 /\ route = "idle"

\* The response app.fetch resolved with has been put on the outbound response.
Translated ==
  /\ workerResponse # NoWorkerResponse
  /\ caughtError = NoAppError
  /\ route \in {"reading", "responded"}

\* C12: the outbound response has the status of the canonical response and
\* every one of its headers unchanged, each value of a header that occurs
\* several times (Set-Cookie) included.
C12_StatusAndHeadersCopied ==
  Translated
    => /\ res.status = workerResponse.status
       /\ res.headers["Set-Cookie"] = workerResponse.cookies
       /\ res.headers["Content-Type"] =
            (IF workerResponse.ctype = "" THEN <<>> ELSE <<workerResponse.ctype>>)

\* The request carried a JSON body, the application got it as the canonical
\* body and sent it back unchanged as JSON, and the response has been written.
JsonEchoed ==
  /\ IsJson(req.ctype) /\ req.wire \in {"data", "pretty"}
  /\ fetchCalls > 0 /\ canon.body.type = "string" /\ canon.method # "MKCOL"
  /\ workerResponse.body = "json" /\ workerResponse.text = canon.body.value
  /\ route = "responded" /\ caughtError = NoAppError
  /\ res.state # "open"

C14_PhasesOrdered ==
  /\ fetchCalls > 0 => (fileStream \in {"none", "finished"} /\ Truthy(req.body))
  /\ workerResponse # NoWorkerResponse => fetchCalls > 0
  /\ route \in {"idle", "fetching"}
       => /\ workerResponse = NoWorkerResponse
          /\ res.text = ""
          /\ res.headers["Set-Cookie"] = <<>> /\ res.headers["Content-Type"] = <<>>
  /\ route = "fetching"
       => (res.state = "open" /\ res.status = NoResponse.status /\ res.body = "none")

C14_Witness ==
  /\ fetchCalls > 0 /\ fileStream = "finished" /\ canon.body = Stream(TempFile)
  /\ route = "responded" /\ workerResponse.body = "json" /\ res.body = "json"
  /\ res.state = "finished"

\* The methods that may carry a body: POST, PUT, PATCH and the WebDAV verbs the
\* server supports (OPTIONS is the preflight, not a WebDAV verb).
MayCarryBody == {"POST", "PUT", "PATCH"} \cup (SupportedMethodSet \ {"OPTIONS"})

\* C15: the canonical request has a body if and only if its method is one that
\* may carry a body: never for another method, always for those.
C15_BodyIffBodyMethod ==
  fetchCalls > 0 => (canon.body # Undefined <=> canon.method \in MayCarryBody)

\* C17: for a request that created a spooled upload exactly one cleanup runs,
\* on response completion, and after it the temp file is removed and
\* req.tempFilePath is cleared, whether the response succeeded, failed (a
\* spool-write error that already removed the file included) or the connection
\* was aborted.
C17_OneCleanupClearsReference ==
  /\ (onFinish /\ res.state = "finished")
       => (TempFile \notin tmpFiles /\ req.tempFilePath = "null")
  /\ (onFinish /\ Settled) => res.state = "finished"

\* C18: the multipart middleware continues the pipeline at most once per
\* request: after next(err) of a request-stream error the spool stream's
\* "finish" does not call next again.
C18_NextCalledAtMostOnce == nextCalls <= 1

\* C20: the canonical body is chosen by strict precedence: the spool file's
\* stream; else the legacy raw body when no spool exists; else "" for MKCOL;
\* else by content type (parsed JSON to its JSON text, an XML/binary buffer
\* as it is, a parsed form to its URL-encoded text); else the text of any
\* other parsed body.  No later source replaces an earlier one.
C20_BodyByPrecedence ==
  (route = "fetching" /\ canon.method \in BodyMethods)
    => LET spool == IsMultipart(req.ctype) /\ req.tempFilePath \in tmpFiles
           legacy == IsMultipart(req.ctype) /\ ~spool /\ Truthy(req.rawBody)
           rest == ~spool /\ ~legacy /\ canon.method # "MKCOL"
           byType == \/ IsJson(req.ctype) /\ req.body.type = "object"
                     \/ IsRaw(req.ctype) /\ req.body.type = "buffer"
                     \/ IsForm(req.ctype) /\ req.body.type = "object"
       IN /\ spool => canon.body = Stream(req.tempFilePath)
          /\ legacy => canon.body = req.rawBody
          /\ (~spool /\ ~legacy /\ canon.method = "MKCOL") => canon.body = Str("")
          /\ (rest /\ IsJson(req.ctype) /\ req.body.type = "object")
               => canon.body = Str(req.body.value)
          /\ (rest /\ IsRaw(req.ctype) /\ req.body.type = "buffer")
               => canon.body = req.body
          /\ (rest /\ IsForm(req.ctype) /\ req.body.type = "object")
               => canon.body = Str(IF req.body.value = "{}" THEN "" ELSE req.body.value)
          /\ (rest /\ ~byType /\ req.body.type = "object")
               => canon.body = Str(req.body.value)
          /\ (rest /\ ~byType /\ req.body.type = "buffer")
               => canon.body = req.body

C20_Witness ==
  /\ route = "fetching" /\ canon.method = "POST"
  /\ IsMultipart(req.ctype) /\ req.tempFilePath \in tmpFiles
  /\ Truthy(req.body) /\ canon.body = Stream(TempFile)

\* C21: a request with a multipart content type on a body-carrying method
\* (a write method here; MKCOL has its own rule) has its body piped to a temp
\* file, and reaches app.fetch with the spooled bytes as the canonical body.
C21_MultipartIsSpooled ==
  (route = "fetching" /\ IsMultipart(req.ctype) /\ canon.method \in {"POST", "PUT", "PATCH"})
    => /\ onFinish /\ fileStream = "finished"
       /\ canon.body = Stream(TempFile)

\* C22: an oversized or malformed body rejected by one of the decoders (raw,
\* urlencoded, json) is answered by the body error handler with a 4xx and its
\* message; it is not dispatched and does not reach the router's final handler.
C22_IngestionErrorsHandled ==
  (req.wire \in {"oversize", "malformed"} /\ req.method \in {"POST", "PUT"})
    => /\ fetchCalls = 0
       /\ res.state # "open" =>
            /\ res.status \in 400..499
            /\ res.body \in {"too-large-json", "unsupported-type-json"}

\* C23: every response of a request under /dav (a preflight aside, which C7
\* covers) carries the Allow header equal to the configured verbs: the
\* responses translated from the application's and the error responses too.
C23_DavResponsesCarryAllow ==
  (StartsWithDav(req.path) /\ req.method # "OPTIONS" /\ res.state # "open")
    => res.headers["Allow"] = SUPPORTED_METHODS

\* C26: the Request handed to app.fetch has the duplex (streaming) flag set
\* exactly when a body is attached to it, the empty string counting as a body.
C26_DuplexIffBody ==
  fetchCalls > 0 => (canon.duplex <=> canon.body # Undefined)

\* An MKCOL request reached app.fetch with the empty string as body and the
\* flag set.
C26_Witness ==
  /\ fetchCalls > 0
  /\ canon.body = Str("")
  /\ canon.duplex

InitDBSpec == InitDB /\ InitInit /\ InitStmt /\ InitErr /\ InitMem /\ InitReqIdle

SpecDB == InitDBSpec /\ [][NextDB]_vars

SpecInit == InitDBSpec /\ [][NextInit]_vars

\* C8: after a failed initialisation, the next request that passes the
\* initialisation middleware invokes the initialisation again.
C8_LaterRequestRetriesInit ==
  \A r \in Requests :
    (enteredAfterFail[r] /\ ipc[r] # "arrive") => invoked[r]

\* C9: under every interleaving of concurrent first requests the initialisation
\* (sqliteAdapter.init, then checkAndInitDatabase) is started at most once, and
\* exactly once as soon as one request has entered the middleware.
C9_InitStartedOnce ==
  /\ initStarts <= 1
  /\ checkStarts <= 1
  /\ (\E r \in Requests : ipc[r] # "arrive") => initStarts = 1

C9_Witness ==
  \E r, q \in Requests :
    /\ r # q
    /\ ipc[r] \in {"open", "pragma", "check"}
    /\ ipc[q] = "done"
    /\ initStarts = 1

SpecStmt == InitDBSpec /\ [][NextStmt]_vars

\* C13: bind replaces the statement's parameters, and rebinding the original
\* statement does not change the parameters of a binding obtained earlier:
\* whatever was bound since, running a variable assigned from bind(args) passes
\* args to the engine.
C13_BindingKeepsItsParams ==
  \A h \in StmtRefs :
    (boundWith[h] # NoParams /\ ranWith[h] # NoParams) => ranWith[h] = boundWith[h]

\* C19: no request is dispatched before the database initialisation has
\* completed: a request that arrives while another one is still awaiting
\* sqliteAdapter.init / checkAndInitDatabase reaches app.fetch only once the
\* connection is open and the schema check has finished.
C19_NoDispatchBeforeInitDone ==
  \A r \in Requests :
    (dispatched[r] # "no" /\ ~initFailed) => dispatched[r] = "ready"

\* The batch of client p has settled after one of its statements failed and
\* the ROLLBACK of the catch block failed too.
RollbackFailedAfterStatement(p) ==
  /\ kind[p] = "batch" /\ pc[p] = "done"
  /\ \E k \in 1..Len(calls[p]) : calls[p][k].op = "STMT" /\ ~calls[p][k].ok
  /\ calls[p][Len(calls[p])] = Call("ROLLBACK", 0, FALSE)

\* C24: when a statement of a batch fails and the ROLLBACK that follows fails
\* as well, batch rejects with the statement's error, not with the rollback's.
C24_RollbackFailureKeepsStatementError ==
  \A p \in Clients :
    RollbackFailedAfterStatement(p) => (result[p] = "rejected" /\ thrown[p] = "STMT")

\* A batch whose failing statement ended the transaction, so that the
\* ROLLBACK had nothing to roll back and failed.
C24_Witness ==
  \E p \in Clients : RollbackFailedAfterStatement(p) /\ len[p] = MaxBatchLen

\* The statements among the engine calls of client p, in call order.
StatementsCalled(p) ==
  SelectSeq(calls[p], LAMBDA c : c.op = "STMT")

\* C25: a batch that succeeds returns one result per statement in input
\* order, having called BEGIN once, then the statements in input order, then
\* COMMIT once; when statement k fails no later statement is executed and the
\* batch returns no results (it rejects).
C25_BatchOrderAndStopAtFailure ==
  \A p \in Clients :
    (kind[p] = "batch" /\ pc[p] = "done") =>
      /\ result[p] = "ok" =>
           /\ results[p] = [k \in 1..len[p] |-> k]
           /\ calls[p] = <<Call("BEGIN", 0, TRUE)>>
                            \o [k \in 1..len[p] |-> Call("STMT", k, TRUE)]
                            \o <<Call("COMMIT", 0, TRUE)>>
      /\ \A k \in 1..Len(StatementsCalled(p)) :
           /\ StatementsCalled(p)[k].k = k
           /\ ~StatementsCalled(p)[k].ok =>
                /\ k = Len(StatementsCalled(p))
                /\ result[p] = "rejected"

\* A batch of the largest size succeeded; another stopped at a failing
\* statement that was not its last.
C25_Witness ==
  /\ \E p \in Clients : kind[p] = "batch" /\ pc[p] = "done" /\ result[p] = "ok"
                          /\ len[p] = MaxBatchLen
  /\ \E p \in Clients : kind[p] = "batch" /\ pc[p] = "done" /\ result[p] = "rejected"
                          /\ caught[p] = "STMT" /\ i[p] < len[p]

SpecErr == InitDBSpec /\ [][NextErr]_vars

\* C27: the body createErrorResponse returns does not depend on the error's
\* message or stack: two calls with the same status return bodies with the
\* same code, the same message (the generic default), the same success and
\* data; only errorId may differ.
C27_ErrorBodyIndependentOfError ==
  \A a, b \in 1..Len(errorResponses) :
    errorResponses[a].status = errorResponses[b].status =>
      /\ errorResponses[a].body.code = errorResponses[b].body.code
      /\ errorResponses[a].body.message = errorResponses[b].body.message
      /\ errorResponses[a].body.message = DefaultMessage
      /\ errorResponses[a].body.success = errorResponses[b].body.success
      /\ errorResponses[a].body.data = errorResponses[b].body.data

\* Two calls with the same status for errors with different messages, one of
\* them naming a secret, and different stacks.
C27_Witness ==
  \E a, b \in 1..Len(errorResponses) :
    /\ errorResponses[a].status = errorResponses[b].status
    /\ errorResponses[a].error.message = <<"bad", "password", "hunter2">>
    /\ errorResponses[b].error.message = <<"boom">>
    /\ errorResponses[a].error.stack # errorResponses[b].error.stack
    /\ errorResponses[a].body.errorId # errorResponses[b].body.errorId

SpecMem == InitDBSpec /\ [][NextMem]_vars

====
